---- MODULE Spec2Model ----
(***************************************************************************)
(* Model of the TikTok uploader (src/ts/src/uploader.ts, cli.ts, auth.ts). *)
(* One execution of TikTokUploader.upload(), entered either directly       *)
(* (library) or through the CLI command cmdUpload, against a browser whose *)
(* behaviour (URLs, visible elements, failing calls) is nondeterministic.  *)
(* Strings whose content the code inspects (URLs, button texts, file       *)
(* extensions) are sequences of one-character strings.                     *)
(***************************************************************************)
EXTENDS Integers, Sequences, FiniteSets, TLC

\* ------------------------------------------------------------------ bounds
MaxTimeoutSteps == 3      \* options.timeout ranges over 0, 3500, 7000, ... ms
MaxButtons == 2           \* number of buttons the page shows to findPostButton
MaxBatch == 2             \* number of requests given to uploadMany
MaxCookies == 2           \* number of cookies interactiveLogin captures

\* ------------------------------------------------------- program constants
DEFAULT_TIMEOUT_MS == 60000
MAX_VIDEO_SIZE_MB == 287
BYTES_PER_MB == 1048576
POLL_INTERVAL_SEC == 5
PROGRESS_CAP == 95
MIN_BUTTON_WIDTH == 100

Undefined == "<undefined>"
\* an absent optional string, among strings written as sequences of characters
NoString == << Undefined >>

\* ---------------------------------------------------------- string helpers
UPPER_CASE ==
    <<"A", "B", "C", "D", "E", "F", "G", "H", "I", "J", "K", "L", "M",
      "N", "O", "P", "Q", "R", "S", "T", "U", "V", "W", "X", "Y", "Z">>
LOWER_CASE ==
    <<"a", "b", "c", "d", "e", "f", "g", "h", "i", "j", "k", "l", "m",
      "n", "o", "p", "q", "r", "s", "t", "u", "v", "w", "x", "y", "z">>

\* the position of c in the table, 0 when it is not there
IndexIn(table, c) ==
    IF \E k \in 1..Len(table) : table[k] = c
    THEN CHOOSE k \in 1..Len(table) : table[k] = c
    ELSE 0

Lower(c) == IF IndexIn(UPPER_CASE, c) > 0 THEN LOWER_CASE[IndexIn(UPPER_CASE, c)] ELSE c

ToLowerCase(s) == [j \in 1..Len(s) |-> Lower(s[j])]

Includes(s, sub) ==
    \E k \in 0..(Len(s) - Len(sub)) :
        \A j \in 1..Len(sub) : s[k + j] = sub[j]

IsSpace(c) == c = " "

RECURSIVE TrimStart(_)
TrimStart(s) == IF s /= <<>> /\ IsSpace(Head(s)) THEN TrimStart(Tail(s)) ELSE s

RECURSIVE TrimEnd(_)
TrimEnd(s) ==
    IF s /= <<>> /\ IsSpace(s[Len(s)]) THEN TrimEnd(SubSeq(s, 1, Len(s) - 1)) ELSE s

Trim(s) == TrimEnd(TrimStart(s))

\* ------------------------------------------------------------------ errors
NoError == [name |-> "none", message |-> "", screenshotPath |-> Undefined]

TikTokError(name, message) ==
    [name |-> name, message |-> message, screenshotPath |-> Undefined]

SessionExpiredError ==
    TikTokError("SessionExpiredError",
                "Session has expired. Please login again with tiktok-upload auth")

LoginRequiredError ==
    TikTokError("LoginRequiredError",
                "No TikTok session found. Run \"tiktok-upload auth\" or set TIKTOK_SESSION environment variable.")

UploadFailedError(message, screenshotPath) ==
    [name |-> "UploadFailedError", message |-> message, screenshotPath |-> screenshotPath]

\* the messages of the three validation errors are kept without the path, size
\* and extension the code interpolates into them
VideoNotFoundError == TikTokError("VideoNotFoundError", "Video file not found")

VideoTooLargeError == TikTokError("VideoTooLargeError", "Video too large")

UnsupportedFormatError == TikTokError("UnsupportedFormatError", "Unsupported video format")

\* an error thrown by the browser-automation engine (not one of the typed errors)
BrowserError == TikTokError("Error", "browser operation failed")

\* String(error): "<name>: <message>"
StringOf(e) == e.name \o ": " \o e.message

\* ------------------------------------------------------------ input domains
LABEL_POST == <<"P", "o", "s", "t">>
LOGIN == <<"l", "o", "g", "i", "n">>
CONTENT_PATH == <<"/", "c", "o", "n", "t", "e", "n", "t">>
POSTS_PATH == <<"/", "p", "o", "s", "t", "s">>

UploadUrl == <<"/", "u", "p", "l", "o", "a", "d">>
LoginUrl == <<"/", "l", "o", "g", "i", "n">>
LoginUrlMixed == <<"/", "L", "o", "g", "I", "n", "?", "x">>
ContentUrl == <<"/", "c", "o", "n", "t", "e", "n", "t">>
PostsUrl == <<"/", "p", "o", "s", "t", "s", "/", "1">>
ContentUrlUpper == <<"/", "C", "o", "n", "t", "e", "n", "t">>

\* URLs the browser may sit on after navigating to the upload page
NavUrls == {UploadUrl, LoginUrl, LoginUrlMixed}
\* URLs the browser may sit on at a poll tick
PollUrls == {UploadUrl, ContentUrl, PostsUrl, ContentUrlUpper}

EXT_MP4 == <<".", "m", "p", "4">>
EXT_MOV == <<".", "m", "o", "v">>
EXT_WEBM == <<".", "w", "e", "b", "m">>
SUPPORTED_FORMATS == {EXT_MP4, EXT_MOV, EXT_WEBM}

MaxBytes == MAX_VIDEO_SIZE_MB * BYTES_PER_MB

\* the files an upload may be pointed at: [exists, ext, size]
Videos ==
    { [exists |-> TRUE,  ext |-> EXT_MP4, size |-> 10 * BYTES_PER_MB],
      [exists |-> TRUE,  ext |-> <<".", "M", "O", "V">>, size |-> MaxBytes],
      [exists |-> TRUE,  ext |-> EXT_MP4, size |-> MaxBytes + 1],
      [exists |-> TRUE,  ext |-> <<".", "a", "v", "i">>, size |-> 10 * BYTES_PER_MB],
      [exists |-> FALSE, ext |-> EXT_MP4, size |-> 0] }

RawSession == <<"r", "a", "w", "s", "e", "s", "s", "i", "o", "n", "i", "d">>
EnvSession == <<"e", "n", "v", "s", "e", "s", "s", "i", "o", "n", "i", "d">>
FileSession == <<"f", "i", "l", "e", "s", "e", "s", "s", "i", "o", "n", "i", "d">>

TimeoutChoices == {DEFAULT_TIMEOUT_MS} \cup {3500 * k : k \in 0..MaxTimeoutSteps}

WideBox == [present |-> TRUE, width |-> MIN_BUTTON_WIDTH + 1]
ThresholdBox == [present |-> TRUE, width |-> MIN_BUTTON_WIDTH]
NoBox == [present |-> FALSE, width |-> 0]
Button(text, box, throws) == [text |-> text, box |-> box, throws |-> throws]
\* the buttons a page may show: text, bounding box, whether inspecting it throws
PageButtons ==
    { Button(LABEL_POST, WideBox, FALSE),
      Button(<<" ", "P", "o", "s", "t", " ">>, WideBox, FALSE),
      Button(<<"P", "o", "s", "t", " ", "n", "o", "w">>, WideBox, FALSE),
      Button(LABEL_POST, ThresholdBox, FALSE),
      Button(LABEL_POST, NoBox, FALSE),
      Button(LABEL_POST, WideBox, TRUE),
      Button(<<"S", "a", "v", "e">>, WideBox, FALSE) }

RECURSIVE SeqsUpTo(_, _)
SeqsUpTo(S, n) ==
    IF n = 0 THEN {<<>>}
    ELSE LET shorter == SeqsUpTo(S, n - 1)
         IN  shorter \cup { Append(q, x) : q \in {r \in shorter : Len(r) = n - 1}, x \in S }

ButtonLists == SeqsUpTo(PageButtons, MaxButtons)

\* the files of uploadMany's requests: a valid one and one that is too large
BatchVideos ==
    { [exists |-> TRUE, ext |-> EXT_MP4, size |-> 10 * BYTES_PER_MB],
      [exists |-> TRUE, ext |-> EXT_MP4, size |-> MaxBytes + 1] }

VideoLists == SeqsUpTo(BatchVideos, MaxBatch)

\* uploadMany is run with one timeout, long enough for one poll tick
BatchTimeouts == {2 * 3500}

\* the files validateVideo is applied to on its own: present or not, with
\* extensions in several letter cases, supported or not, and sizes around the limit
FileExtensions ==
    { EXT_MP4, EXT_MOV, EXT_WEBM, <<".", "M", "P", "4">>, <<".", "M", "o", "V">>,
      <<".", "W", "E", "B", "M">>, <<".", "a", "v", "i">>, <<".", "m", "k", "v">>,
      <<".", "m", "p", "4", "x">>, <<"m", "p", "4">>, <<>> }

FileSizes == {0, 1, MaxBytes - 1, MaxBytes, MaxBytes + 1, 2 * MaxBytes}

Files == [exists : BOOLEAN, ext : FileExtensions, size : FileSizes]

MODAL_BUTTONS == <<"Cancel", "Not now", "Close", "Skip", "Got it">>
\* what one label does in dismissModals: not visible, isVisible throws, visible
\* and clicked, visible but click() throws, clicked but the settle wait throws
ModalBehaviours == {"hidden", "throws", "visible", "clickThrows", "waitThrows"}

ExitModalStates == {"hidden", "visible", "throws"}

\* ------------------------------------------------- characters and bytes
\* the printable ASCII characters, in code order from 32 (space) to 126 (~);
\* the grave accent (code 96) is written "<grave>"
ASCII_PRINTABLE ==
    <<" ", "!", "\"", "#", "$", "%", "&", "'", "(", ")", "*", "+", ",", "-", ".", "/",
      "0", "1", "2", "3", "4", "5", "6", "7", "8", "9", ":", ";", "<", "=", ">", "?",
      "@", "A", "B", "C", "D", "E", "F", "G", "H", "I", "J", "K", "L", "M", "N", "O",
      "P", "Q", "R", "S", "T", "U", "V", "W", "X", "Y", "Z", "[", "\\", "]", "^", "_",
      "<grave>", "a", "b", "c", "d", "e", "f", "g", "h", "i", "j", "k", "l", "m", "n", "o",
      "p", "q", "r", "s", "t", "u", "v", "w", "x", "y", "z", "{", "|", "}", "~">>

\* the base64 alphabet of Buffer, in value order
BASE64_ALPHABET ==
    <<"A", "B", "C", "D", "E", "F", "G", "H", "I", "J", "K", "L", "M", "N", "O", "P",
      "Q", "R", "S", "T", "U", "V", "W", "X", "Y", "Z", "a", "b", "c", "d", "e", "f",
      "g", "h", "i", "j", "k", "l", "m", "n", "o", "p", "q", "r", "s", "t", "u", "v",
      "w", "x", "y", "z", "0", "1", "2", "3", "4", "5", "6", "7", "8", "9", "+", "/">>

HEX_DIGITS == <<"0", "1", "2", "3", "4", "5", "6", "7", "8", "9", "a", "b", "c", "d", "e", "f">>

DIGITS == <<"0", "1", "2", "3", "4", "5", "6", "7", "8", "9">>

\* the UTF-8 byte of a printable ASCII character
CodeOf(c) == 31 + IndexIn(ASCII_PRINTABLE, c)

\* the character a decoded byte stands for in a string: printable ASCII as
\* itself, tab, line feed and carriage return as themselves, any other
\* control byte as "<ctl>", and a byte of 127 or more (part of a non-ASCII
\* character or of an invalid sequence, which becomes U+FFFD) as "<hi>"
CharOf(b) ==
    IF b >= 32 /\ b <= 126 THEN ASCII_PRINTABLE[b - 31]
    ELSE IF b = 9 THEN "\t"
    ELSE IF b = 10 THEN "\n"
    ELSE IF b = 13 THEN "\r"
    ELSE IF b < 32 THEN "<ctl>"
    ELSE "<hi>"

\* Buffer.from(text): the UTF-8 bytes of a string of printable ASCII characters
Utf8Bytes(s) == [k \in 1..Len(s) |-> CodeOf(s[k])]

\* buffer.toString('utf-8')
Utf8ToString(bytes) == [k \in 1..Len(bytes) |-> CharOf(bytes[k])]

\* character number k (from 0) of buffer.toString('base64'): three bytes make
\* four characters, and a last group of one or two bytes is padded with "="
Base64Char(bytes, k) ==
    LET g == 3 * (k \div 4)
        b1 == bytes[g + 1]
        b2 == IF g + 2 <= Len(bytes) THEN bytes[g + 2] ELSE 0
        b3 == IF g + 3 <= Len(bytes) THEN bytes[g + 3] ELSE 0
    IN  IF k % 4 = 0 THEN BASE64_ALPHABET[(b1 \div 4) + 1]
        ELSE IF k % 4 = 1 THEN BASE64_ALPHABET[((b1 % 4) * 16 + b2 \div 16) + 1]
        ELSE IF k % 4 = 2
        THEN IF g + 2 > Len(bytes) THEN "="
             ELSE BASE64_ALPHABET[((b2 % 16) * 4 + b3 \div 64) + 1]
        ELSE IF g + 3 > Len(bytes) THEN "="
             ELSE BASE64_ALPHABET[(b3 % 64) + 1]

Base64Encode(bytes) ==
    [k \in 1..(4 * ((Len(bytes) + 2) \div 3)) |-> Base64Char(bytes, k - 1)]

\* the six-bit value of a base64 character, -1 for any other character; the
\* URL-safe characters "-" and "_" are accepted for "+" and "/"
Unbase64(c) ==
    IF c = "-" THEN 62
    ELSE IF c = "_" THEN 63
    ELSE IndexIn(BASE64_ALPHABET, c) - 1

IsBase64Char(c) == Unbase64(c) >= 0

\* the six-bit values Buffer.from(s, 'base64') reads: reading stops at the
\* first "=", and characters outside the alphabet are skipped
Sextets(s) ==
    LET stop == IF \E k \in 1..Len(s) : s[k] = "="
                THEN CHOOSE k \in 1..Len(s) : s[k] = "=" /\ \A m \in 1..(k - 1) : s[m] /= "="
                ELSE Len(s) + 1
        legal == SelectSeq(SubSeq(s, 1, stop - 1), IsBase64Char)
    IN  [k \in 1..Len(legal) |-> Unbase64(legal[k])]

\* byte number j (from 0) of the bit stream of the six-bit values v
PackedByte(v, j) ==
    LET g == 4 * (j \div 3)
    IN  IF j % 3 = 0 THEN v[g + 1] * 4 + v[g + 2] \div 16
        ELSE IF j % 3 = 1 THEN (v[g + 2] % 16) * 16 + v[g + 3] \div 4
        ELSE (v[g + 3] % 4) * 64 + v[g + 4]

\* Buffer.from(s, 'base64'): never fails, whatever the string
Base64Decode(s) ==
    LET v == Sextets(s)
    IN  [k \in 1..((Len(v) * 6) \div 8) |-> PackedByte(v, k - 1)]

\* ------------------------------------------------------------------ JSON
\* JSON values: a kind t and a content v
JStr(s) == [t |-> "str", v |-> s]
JNum(lexeme) == [t |-> "num", v |-> lexeme]
JLit(word) == [t |-> "lit", v |-> word]
JArr(items) == [t |-> "arr", v |-> items]
\* an object: its members << key, value >> in insertion order
JObj(members) == [t |-> "obj", v |-> members]

\* EscapeChar leaving the double quote as it is
EscapeChar_QuoteUnescaped(c) ==
    IF c = "\\" THEN << "\\", "\\" >>
    ELSE IF c = "\n" THEN << "\\", "n" >>
    ELSE IF c = "\r" THEN << "\\", "r" >>
    ELSE IF c = "\t" THEN << "\\", "t" >>
    ELSE << c >>

\* the characters JSON.stringify writes for one character of a string
EscapeChar(c) ==
    IF c = "\"" THEN << "\\", "\"" >>
    ELSE IF c = "\\" THEN << "\\", "\\" >>
    ELSE IF c = "\n" THEN << "\\", "n" >>
    ELSE IF c = "\r" THEN << "\\", "r" >>
    ELSE IF c = "\t" THEN << "\\", "t" >>
    ELSE << c >>

RECURSIVE EscapeString(_)
EscapeString(s) ==
    IF s = <<>> THEN <<>> ELSE EscapeChar(Head(s)) \o EscapeString(Tail(s))

Quote(s) == << "\"" >> \o EscapeString(s) \o << "\"" >>

\* JSON.stringify(value), without indentation
RECURSIVE Stringify(_)
RECURSIVE StringifyItems(_)
RECURSIVE StringifyMembers(_)
Stringify(j) ==
    IF j.t = "str" THEN Quote(j.v)
    ELSE IF j.t = "arr" THEN << "[" >> \o StringifyItems(j.v) \o << "]" >>
    ELSE IF j.t = "obj" THEN << "{" >> \o StringifyMembers(j.v) \o << "}" >>
    ELSE j.v

StringifyItems(items) ==
    IF items = <<>> THEN <<>>
    ELSE IF Len(items) = 1 THEN Stringify(items[1])
    ELSE Stringify(items[1]) \o << "," >> \o StringifyItems(Tail(items))

StringifyMembers(members) ==
    IF members = <<>> THEN <<>>
    ELSE LET m == Quote(members[1][1]) \o << ":" >> \o Stringify(members[1][2])
         IN  IF Len(members) = 1 THEN m
             ELSE m \o << "," >> \o StringifyMembers(Tail(members))

\* JSON.parse: a parse step ends at a position with a value, or fails
ParseFail == [ok |-> FALSE, val |-> <<>>, pos |-> 0]
Parsed(val, pos) == [ok |-> TRUE, val |-> val, pos |-> pos]

At(s, p) == IF p >= 1 /\ p <= Len(s) THEN s[p] ELSE "<eof>"

IsJsonSpace(c) == c \in {" ", "\t", "\n", "\r"}

IsDigit(c) == IndexIn(DIGITS, c) > 0

IsHex(c) == IndexIn(HEX_DIGITS, Lower(c)) > 0
HexVal(c) == IndexIn(HEX_DIGITS, Lower(c)) - 1

RECURSIVE SkipSpace(_, _)
SkipSpace(s, p) == IF IsJsonSpace(At(s, p)) THEN SkipSpace(s, p + 1) ELSE p

\* the first position from p on that holds no digit
RECURSIVE DigitsEnd(_, _)
DigitsEnd(s, p) == IF IsDigit(At(s, p)) THEN DigitsEnd(s, p + 1) ELSE p

Matches(s, p, word) ==
    /\ p + Len(word) - 1 <= Len(s)
    /\ SubSeq(s, p, p + Len(word) - 1) = word

\* the character written as \uXXXX with the hex digits at p..p+3
UnicodeEscape(s, p) ==
    LET code == HexVal(s[p]) * 4096 + HexVal(s[p + 1]) * 256
                + HexVal(s[p + 2]) * 16 + HexVal(s[p + 3])
    IN  IF code < 128 THEN CharOf(code) ELSE "<hi>"

\* a string from the position after its opening quote
RECURSIVE ParseString(_, _, _)
ParseString(s, p, acc) ==
    LET c == At(s, p)
        e == At(s, p + 1)
    IN  IF c = "<eof>" THEN ParseFail
        ELSE IF c = "\"" THEN Parsed(JStr(acc), p + 1)
        ELSE IF c \in {"\t", "\n", "\r", "<ctl>"} THEN ParseFail
        ELSE IF c /= "\\" THEN ParseString(s, p + 1, Append(acc, c))
        ELSE IF e \in {"\"", "\\", "/"} THEN ParseString(s, p + 2, Append(acc, e))
        ELSE IF e = "n" THEN ParseString(s, p + 2, Append(acc, "\n"))
        ELSE IF e = "r" THEN ParseString(s, p + 2, Append(acc, "\r"))
        ELSE IF e = "t" THEN ParseString(s, p + 2, Append(acc, "\t"))
        ELSE IF e \in {"b", "f"} THEN ParseString(s, p + 2, Append(acc, "<ctl>"))
        ELSE IF e = "u" /\ \A k \in 2..5 : IsHex(At(s, p + k))
             THEN ParseString(s, p + 6, Append(acc, UnicodeEscape(s, p + 2)))
        ELSE ParseFail

\* a number: -? (0 | [1-9][0-9]*) (. [0-9]+)? ([eE] [+-]? [0-9]+)?
ParseNumber(s, p) ==
    LET p1 == IF At(s, p) = "-" THEN p + 1 ELSE p
        p2 == IF At(s, p1) = "0" THEN p1 + 1
              ELSE IF IsDigit(At(s, p1)) THEN DigitsEnd(s, p1)
              ELSE 0
        p3 == IF p2 = 0 THEN 0
              ELSE IF At(s, p2) /= "." THEN p2
              ELSE IF IsDigit(At(s, p2 + 1)) THEN DigitsEnd(s, p2 + 1)
              ELSE 0
        pe == IF At(s, p3 + 1) \in {"+", "-"} THEN p3 + 2 ELSE p3 + 1
        p4 == IF p3 = 0 THEN 0
              ELSE IF At(s, p3) \notin {"e", "E"} THEN p3
              ELSE IF IsDigit(At(s, pe)) THEN DigitsEnd(s, pe)
              ELSE 0
    IN  IF p4 = 0 THEN ParseFail ELSE Parsed(JNum(SubSeq(s, p, p4 - 1)), p4)

\* members with key set to val: a repeated key keeps its place, the last value wins
SetMember(members, key, val) ==
    IF \E k \in 1..Len(members) : members[k][1] = key
    THEN [k \in 1..Len(members) |->
            IF members[k][1] = key THEN << key, val >> ELSE members[k]]
    ELSE Append(members, << key, val >>)

RECURSIVE ParseValue(_, _)
RECURSIVE ParseElements(_, _, _)
RECURSIVE ParseMembers(_, _, _)
ParseValue(s, p0) ==
    LET p == SkipSpace(s, p0)
        c == At(s, p)
        q == SkipSpace(s, p + 1)
    IN  IF c = "[" THEN
            IF At(s, q) = "]" THEN Parsed(JArr(<<>>), q + 1) ELSE ParseElements(s, q, <<>>)
        ELSE IF c = "{" THEN
            IF At(s, q) = "}" THEN Parsed(JObj(<<>>), q + 1) ELSE ParseMembers(s, q, <<>>)
        ELSE IF c = "\"" THEN ParseString(s, p + 1, <<>>)
        ELSE IF c = "-" \/ IsDigit(c) THEN ParseNumber(s, p)
        ELSE IF Matches(s, p, <<"t", "r", "u", "e">>) THEN Parsed(JLit("true"), p + 4)
        ELSE IF Matches(s, p, <<"f", "a", "l", "s", "e">>) THEN Parsed(JLit("false"), p + 5)
        ELSE IF Matches(s, p, <<"n", "u", "l", "l">>) THEN Parsed(JLit("null"), p + 4)
        ELSE ParseFail

\* the elements of an array from position p on, acc being those already read
ParseElements(s, p, acc) ==
    LET r == ParseValue(s, p)
        q == SkipSpace(s, r.pos)
    IN  IF ~r.ok THEN ParseFail
        ELSE IF At(s, q) = "," THEN ParseElements(s, q + 1, Append(acc, r.val))
        ELSE IF At(s, q) = "]" THEN Parsed(JArr(Append(acc, r.val)), q + 1)
        ELSE ParseFail

\* the members of an object from position p on, acc being those already read
ParseMembers(s, p, acc) ==
    LET q0 == SkipSpace(s, p)
        key == ParseString(s, q0 + 1, <<>>)
        q1 == SkipSpace(s, key.pos)
        r == ParseValue(s, q1 + 1)
        q2 == SkipSpace(s, r.pos)
    IN  IF At(s, q0) /= "\"" THEN ParseFail
        ELSE IF ~key.ok THEN ParseFail
        ELSE IF At(s, q1) /= ":" THEN ParseFail
        ELSE IF ~r.ok THEN ParseFail
        ELSE IF At(s, q2) = "," THEN ParseMembers(s, q2 + 1, SetMember(acc, key.val.v, r.val))
        ELSE IF At(s, q2) = "}" THEN Parsed(JObj(SetMember(acc, key.val.v, r.val)), q2 + 1)
        ELSE ParseFail

\* JSON.parse(text): the value, or a failure when it throws SyntaxError
JsonParse(text) ==
    LET r == ParseValue(text, 1)
    IN  IF r.ok /\ SkipSpace(text, r.pos) > Len(text) THEN r ELSE ParseFail

\* ----------------------------------------------------------- pure functions
\* a || b on optional strings: the empty string and undefined are falsy
OrElse(a, b) == IF a /= NoString /\ a /= <<>> THEN a ELSE b

NoCookies == [set |-> FALSE, list |-> <<>>]

KEY_NAME == <<"n", "a", "m", "e">>
KEY_VALUE == <<"v", "a", "l", "u", "e">>
KEY_DOMAIN == <<"d", "o", "m", "a", "i", "n">>
KEY_PATH == <<"p", "a", "t", "h">>
SESSIONID == <<"s", "e", "s", "s", "i", "o", "n", "i", "d">>
SESSIONID_SS == <<"s", "e", "s", "s", "i", "o", "n", "i", "d", "_", "s", "s">>
TIKTOK_DOMAIN == <<".", "t", "i", "k", "t", "o", "k", ".", "c", "o", "m">>
ROOT_PATH == << "/" >>

\* a Cookie object { name, value, domain, path }
CookieRecord(name, value, domain, path) ==
    JObj(<< << KEY_NAME, JStr(name) >>, << KEY_VALUE, JStr(value) >>,
            << KEY_DOMAIN, JStr(domain) >>, << KEY_PATH, JStr(path) >> >>)

Cookie(name, value) == CookieRecord(name, value, TIKTOK_DOMAIN, ROOT_PATH)

\* interactiveLogin: the session token of the captured cookies
EncodeSession(authCookies) == Base64Encode(Utf8Bytes(Stringify(JArr(authCookies))))

\* parseSession: the decoded array when the session is base64 JSON of an
\* array, else the two cookies of a raw session id
parseSession(session) ==
    LET decoded == Utf8ToString(Base64Decode(session))
        parsed == JsonParse(decoded)
    IN  IF parsed.ok /\ parsed.val.t = "arr"
        THEN [set |-> TRUE, list |-> parsed.val.v]
        ELSE [set |-> TRUE,
              list |-> << Cookie(SESSIONID, session), Cookie(SESSIONID_SS, session) >>]

\* interactiveLogin's cookies: auth-cookie names, values with the characters
\* JSON escapes or uses as punctuation, the domain and path of TikTok
CookieNames == { SESSIONID, <<"s", "i", "d", "_", "t", "t">> }
CookieValues ==
    { <<>>, <<"a", "b", "1">>, <<"a", "\"", "b">>, <<"\\", "n">>, <<"x", "=", ",", "}", "]">> }
AuthCookies ==
    { CookieRecord(n, v, TIKTOK_DOMAIN, ROOT_PATH) : n \in CookieNames, v \in CookieValues }
CookieLists == SeqsUpTo(AuthCookies, MaxCookies)

\* JSON texts that are not a list of cookie records, and one that is no JSON
NonCookieTexts ==
    { <<"{", "}">>,
      <<"{", "\"", "n", "a", "m", "e", "\"", ":", "\"", "a", "\"", "}">>,
      <<"\"", "a", "b", "c", "\"">>,
      <<"1", "2">>,
      <<"n", "u", "l", "l">>,
      <<"[", "]">>,
      <<"[", "1", "]">>,
      <<"[", "\"", "a", "\"", "]">>,
      <<"[", "n", "u", "l", "l", "]">>,
      <<"[", "{", "\"", "n", "a", "m", "e", "\"", ":", "\"", "s", "e", "s", "s", "i", "o", "n", "i", "d", "\"", "}", "]">>,
      <<"[", "{", "\"", "n", "a", "m", "e", "\"", ":", "\"", "s", "e", "s", "s", "i", "o", "n", "i", "d", "\"", ",", "\"", "v", "a", "l", "u", "e", "\"", ":", "1", ",", "\"", "d", "o", "m", "a", "i", "n", "\"", ":", "\"", ".", "t", "i", "k", "t", "o", "k", ".", "c", "o", "m", "\"", ",", "\"", "p", "a", "t", "h", "\"", ":", "\"", "/", "\"", "}", "]">>,
      <<"[", "{", "\"", "n", "a", "m", "e", "\"">>,
      <<"[", "]", " ", "x">>,
      <<"[", "[", "]", "]">> }

\* session strings given by hand: raw session ids, text that is not base64,
\* and the base64 of texts that are not a list of cookie records
GivenSessions ==
    { RawSession, <<"n", "o", "t", " ", "b", "a", "s", "e", "6", "4", "!", "!">> }
        \cup { Base64Encode(Utf8Bytes(t)) : t \in NonCookieTexts }

\* constructor: the session and cookies fields
ConstructSession(optSession, env) == OrElse(optSession, env)
ConstructCookies(sess) == IF sess /= NoString /\ sess /= <<>> THEN parseSession(sess) ELSE NoCookies

\* getSession(): the session string, or NoString when it throws LoginRequiredError
getSession(param, env, file) ==
    IF param /= NoString /\ param /= <<>> THEN param
    ELSE IF env /= NoString /\ env /= <<>> THEN env
    ELSE IF file /= NoString THEN file
    ELSE NoString

\* validateVideo rejecting a file of exactly the maximum size
validateVideo_SizeAtLeast(v) ==
    IF ~v.exists THEN VideoNotFoundError
    ELSE IF ToLowerCase(v.ext) \notin SUPPORTED_FORMATS THEN UnsupportedFormatError
    ELSE IF v.size >= MAX_VIDEO_SIZE_MB * BYTES_PER_MB THEN VideoTooLargeError
    ELSE NoError

\* validateVideo: the error it throws, or NoError
validateVideo(v) ==
    IF ~v.exists THEN VideoNotFoundError
    ELSE IF ToLowerCase(v.ext) \notin SUPPORTED_FORMATS THEN UnsupportedFormatError
    ELSE IF v.size > MAX_VIDEO_SIZE_MB * BYTES_PER_MB THEN VideoTooLargeError
    ELSE NoError

\* locator('button').filter({ hasText: 'Post' }): case-insensitive substring match
RECURSIVE FilterHasText(_, _)
FilterHasText(btns, label) ==
    IF btns = <<>> THEN <<>>
    ELSE LET rest == FilterHasText(Tail(btns), label)
         IN  IF Includes(ToLowerCase(Head(btns).text), ToLowerCase(label))
             THEN <<Head(btns)>> \o rest
             ELSE rest

\* IsPostButton with the width test admitting the threshold itself
IsPostButton_WidthAtLeast(btn) ==
    /\ ~btn.throws
    /\ btn.box.present
    /\ Trim(btn.text) = LABEL_POST
    /\ btn.box.width >= MIN_BUTTON_WIDTH

\* the test of findPostButton's loop body on one candidate
IsPostButton(btn) ==
    /\ ~btn.throws
    /\ btn.box.present
    /\ Trim(btn.text) = LABEL_POST
    /\ btn.box.width > MIN_BUTTON_WIDTH

\* findPostButton's loop: index of the returned candidate, 0 for null
RECURSIVE FindFrom(_, _)
FindFrom(btns, k) ==
    IF k > Len(btns) THEN 0
    ELSE IF IsPostButton(btns[k]) THEN k
    ELSE FindFrom(btns, k + 1)

\* findPostButton without the try/catch: a candidate whose inspection throws
\* ends the search with no control
RECURSIVE FindFrom_ThrowEndsSearch(_, _)
FindFrom_ThrowEndsSearch(btns, k) ==
    IF k > Len(btns) THEN 0
    ELSE IF btns[k].throws THEN 0
    ELSE IF IsPostButton(btns[k]) THEN k
    ELSE FindFrom_ThrowEndsSearch(btns, k + 1)

findPostButton_ThrowEndsSearch(btns) == FindFrom_ThrowEndsSearch(btns, 1)

findPostButton(btns) == FindFrom(btns, 1)

\* dismissModals' loop from label k on: the clicks it issues, each with
\* whether click() completed
RECURSIVE DismissFrom(_, _)
DismissFrom(behaviour, k) ==
    IF k > Len(MODAL_BUTTONS) THEN <<>>
    ELSE LET b == behaviour[k]
             label == MODAL_BUTTONS[k]
         IN  CASE b = "visible" -> << [label |-> label, completed |-> TRUE] >>
               [] b = "clickThrows" ->
                    << [label |-> label, completed |-> FALSE] >> \o DismissFrom(behaviour, k + 1)
               [] b = "waitThrows" ->
                    << [label |-> label, completed |-> TRUE] >> \o DismissFrom(behaviour, k + 1)
               [] OTHER -> DismissFrom(behaviour, k + 1)

dismissModals(behaviour) == DismissFrom(behaviour, 1)

TimeoutSeconds(ms) == ms \div 1000

Iterations(timeoutSeconds) == timeoutSeconds \div POLL_INTERVAL_SEC

\* Math.round(a / b) for a >= 0, b > 0
RoundDiv(a, b) == (2 * a + b) \div (2 * b)

\* TickProgress without the cap
TickProgress_NoCap(k, timeoutSeconds) ==
    RoundDiv((k + 1) * POLL_INTERVAL_SEC * 100, timeoutSeconds)

\* Math.round(Math.min(95, ((i + 1) * 5 * 100) / timeoutSeconds))
TickProgress(k, timeoutSeconds) ==
    IF (k + 1) * POLL_INTERVAL_SEC * 100 >= PROGRESS_CAP * timeoutSeconds
    THEN PROGRESS_CAP
    ELSE RoundDiv((k + 1) * POLL_INTERVAL_SEC * 100, timeoutSeconds)

\* IsSuccessUrl also accepting the upload page itself
IsSuccessUrl_UploadPage(url) ==
    Includes(url, CONTENT_PATH) \/ Includes(url, POSTS_PATH) \/ Includes(url, UploadUrl)

IsSuccessUrl(url) ==
    Includes(url, CONTENT_PATH) \/ Includes(url, POSTS_PATH)

\* IsLoginUrl without the toLowerCase()
IsLoginUrl_CaseSensitive(url) == Includes(url, LOGIN)

\* page.url().toLowerCase().includes('login')
IsLoginUrl(url) == Includes(ToLowerCase(url), LOGIN)

\* -------------------------------------------------------------------- state
VARIABLES
    entry,        \* "lib": TikTokUploader.upload() called directly; "cli": cmdUpload
    sources,      \* where a session could come from: [param, env, file]
    session,      \* this.session
    cookies,      \* this.cookies: [set, list]
    timeout,      \* this.timeout (ms)
    debug,        \* this.debug
    hasProgress,  \* whether upload() was given an onProgress callback
    pc,           \* position in cmdUpload / upload()
    video,        \* the file upload() was pointed at
    launched,     \* browsers chromium.launch() has returned
    openBrowsers, \* browsers launched and not yet closed
    calls,        \* number of calls issued to the browser, per operation
    progress,     \* the values passed to onProgress, in order
    navUrl,       \* page.url() after navigating to the upload page
    modalClicks,  \* clicks issued by the dismissModals call just made
    buttons,      \* candidates inspected by the findPostButton call just made
    postBtn,      \* what findPostButton returned: -1 not called yet, 0 null, else the
                  \* control's index in buttons (1 once buttons is dropped after the click)
    i,            \* waitForUploadComplete's loop counter
    pollEnd,      \* how waitForUploadComplete ended: "success", "exit", "timeout"
    tickUrl,      \* page.url() at the last poll tick
    tickExit,     \* state of the exit-confirmation dialog at the last poll tick
    error,        \* the error thrown inside upload()'s try block
    outcome,      \* what upload() returned or threw
    exitCode,     \* cmdUpload's return value, -1 while it has not returned
    videos,       \* uploadMany's argument: the files of the requests, in order
    hasCallback,  \* whether uploadMany was given an onVideoComplete callback
    idx,          \* uploadMany's loop counter (0-based index of the current request)
    started,      \* number of upload() calls uploadMany has made
    results,      \* uploadMany's results array
    completed,    \* the (index, result) pairs passed to onVideoComplete, in order
    scenario,     \* the browser's behaviour when it is fixed in advance, else NoScenario
    issuedLog,    \* under a fixed scenario: the calls each finished request issued
    fn,           \* the pure function applied on its own: "parseSession", "validateVideo"
    arg,          \* its argument
    ret           \* its result, once applied

vars == << entry, sources, session, cookies, timeout, debug, hasProgress, pc, video,
           launched, openBrowsers, calls, progress, navUrl, modalClicks, buttons, postBtn, i,
           pollEnd, tickUrl, tickExit, error, outcome, exitCode,
           videos, hasCallback, idx, started, results, completed, scenario, issuedLog,
           fn, arg, ret >>

config == << entry, sources, timeout, debug, hasProgress, scenario >>
uploader == << session, cookies >>
browser == << launched, openBrowsers >>
pollVars == << i, pollEnd, tickUrl, tickExit >>
pageVars == << navUrl, modalClicks, buttons, postBtn >>
batchVars == << videos, hasCallback, idx, started, results, completed, issuedLog >>
pureVars == << fn, arg, ret >>

OpNames ==
    { "launch", "newContext", "close", "newPage", "gotoBase", "addCookies", "pageClose",
      "gotoUpload", "wait", "setInputFiles", "captionClick", "captionFill", "pressEscape",
      "scrollToEnd", "collectButtons", "scrollIntoView", "postClick",
      "screenshotNoPost", "screenshotFailed", "exitCheck", "dismissModals" }

\* calls after issuing the operations ops
Issue(c, ops) ==
    [o \in OpNames |-> c[o] + Cardinality({j \in 1..Len(ops) : ops[j] = o})]

\* ways a run of awaited browser calls can go: all complete, or the n-th throws
StepOutcomes(ops) ==
    { [issued |-> SubSeq(ops, 1, n), ok |-> FALSE] : n \in 1..Len(ops) }
        \cup { [issued |-> ops, ok |-> TRUE] }

\* onProgress(value), when a callback was given
Report(seq, value) == IF hasProgress THEN Append(seq, value) ELSE seq

NoOutcome == [type |-> "pending", success |-> FALSE, status |-> "", error |-> NoError]
Returned == [type |-> "returned", success |-> TRUE, status |-> "uploaded", error |-> NoError]
Thrown(e) == [type |-> "thrown", success |-> FALSE, status |-> "", error |-> e]

\* the browser's behaviour is left open: every awaited call may complete or throw,
\* every page may show anything of the input domains
NoScenario ==
    [fixed |-> FALSE, failAt |-> 0, navUrl |-> <<>>, page |-> <<>>, modals |-> <<>>,
     tickUrl |-> <<>>, tickExit |-> "hidden"]

\* the history kept for comparing requests served by the same browser behaviour
Logged(log, c) == IF scenario.fixed THEN Append(log, c) ELSE log

TypeOK ==
    /\ entry \in {"lib", "cli", "batch", "pure"}
    /\ debug \in BOOLEAN /\ hasProgress \in BOOLEAN
    /\ timeout \in TimeoutChoices \cup BatchTimeouts
    /\ openBrowsers \in Nat
    /\ idx \in 0..Len(videos) /\ Len(results) = idx
    /\ calls \in [OpNames -> Nat]
    /\ postBtn \in Int /\ postBtn >= -1
    /\ launched \in 0..1
    /\ pc = "found" => postBtn \in 0..Len(buttons)
    /\ exitCode \in {-1, 0, 1}

\* no uploadMany call is in progress
NoBatch ==
    /\ videos = <<>>
    /\ hasCallback = FALSE
    /\ idx = 0
    /\ started = 0
    /\ results = <<>>
    /\ completed = <<>>
    /\ issuedLog = <<>>

\* no pure function is applied on its own
NoPure ==
    /\ fn = "none"
    /\ arg = <<>>
    /\ ret = <<>>

Init ==
    /\ entry \in {"lib", "cli"}
    /\ scenario = NoScenario
    /\ sources \in
         IF entry = "lib"
         THEN [param : {NoString, <<>>, RawSession}, env : {NoString, EnvSession},
               file : {NoString}]
         ELSE [param : {NoString}, env : {NoString, EnvSession},
               file : {NoString, FileSession}]
    /\ session = IF entry = "lib" THEN ConstructSession(sources.param, sources.env)
                 ELSE NoString
    /\ cookies = IF entry = "lib" THEN ConstructCookies(session) ELSE NoCookies
    /\ timeout \in IF entry = "lib" THEN TimeoutChoices ELSE {DEFAULT_TIMEOUT_MS}
    /\ debug \in BOOLEAN
    /\ hasProgress \in BOOLEAN
    /\ pc = IF entry = "lib" THEN "validate" ELSE "cli"
    /\ video \in Videos
    /\ launched = 0
    /\ openBrowsers = 0
    /\ calls = [o \in OpNames |-> 0]
    /\ progress = <<>>
    /\ navUrl = <<>>
    /\ modalClicks = <<>>
    /\ buttons = <<>>
    /\ postBtn = -1
    /\ i = 0
    /\ pollEnd = "none"
    /\ tickUrl = <<>>
    /\ tickExit = "hidden"
    /\ error = NoError
    /\ outcome = NoOutcome
    /\ exitCode = -1
    /\ NoBatch
    /\ NoPure

\* the pages an upload may meet. The uploads of uploadMany meet a reduced set:
\* every modal label behaves alike, and the page shows at most one button.
ModalChoices ==
    IF entry = "batch"
    THEN { [k \in 1..Len(MODAL_BUTTONS) |-> b] : b \in ModalBehaviours }
    ELSE [1..Len(MODAL_BUTTONS) -> ModalBehaviours]

ButtonChoices ==
    IF entry = "batch" THEN SeqsUpTo(PageButtons, 1) ELSE ButtonLists

\* ------------------------------------------------------------------ actions
\* cmdUpload up to the call of uploader.upload()
CmdUploadStart ==
    /\ pc = "cli"
    /\ LET s == getSession(sources.param, sources.env, sources.file)
       IN  IF s = NoString
           THEN /\ exitCode' = 1
                /\ pc' = "exit"
                /\ UNCHANGED uploader
           ELSE /\ session' = ConstructSession(s, sources.env)
                /\ cookies' = ConstructCookies(session')
                /\ pc' = "validate"
                /\ UNCHANGED exitCode
    /\ UNCHANGED << config, batchVars, pureVars, video, browser, calls, progress, pageVars, pollVars,
                    error, outcome >>

\* cmdUpload after uploader.upload() returned or threw
CmdUploadEnd ==
    /\ pc = "done"
    /\ entry = "cli"
    /\ exitCode' = IF outcome.type = "returned" /\ outcome.success THEN 0 ELSE 1
    /\ pc' = "exit"
    /\ UNCHANGED << config, batchVars, pureVars, uploader, video, browser, calls, progress, pageVars,
                    pollVars, error, outcome >>

\* Validate with onProgress(0) reported before the video is validated
Validate_ProgressFirst ==
    /\ pc = "validate"
    /\ progress' = Report(progress, 0)
    /\ LET e == validateVideo(video)
       IN  IF e /= NoError
           THEN /\ outcome' = Thrown(e)
                /\ pc' = "done"
           ELSE /\ pc' = "launch"
                /\ UNCHANGED outcome
    /\ UNCHANGED << config, batchVars, pureVars, uploader, video, browser, calls, pageVars, pollVars,
                    error, exitCode >>

\* upload(): validateVideo and onProgress(0)
Validate ==
    /\ pc = "validate"
    /\ LET e == validateVideo(video)
       IN  IF e /= NoError
           THEN /\ outcome' = Thrown(e)
                /\ pc' = "done"
                /\ UNCHANGED progress
           ELSE /\ progress' = Report(progress, 0)
                /\ pc' = "launch"
                /\ UNCHANGED outcome
    /\ UNCHANGED << config, batchVars, pureVars, uploader, video, browser, calls, pageVars, pollVars,
                    error, exitCode >>

\* chromium.launch(), outside the try block
Launch ==
    /\ pc = "launch"
    /\ calls' = Issue(calls, <<"launch">>)
    /\ \E ok \in BOOLEAN :
         IF ok
         THEN /\ launched' = launched + 1
              /\ openBrowsers' = openBrowsers + 1
              /\ pc' = "newContext"
              /\ UNCHANGED outcome
         ELSE /\ outcome' = Thrown(BrowserError)
              /\ pc' = "done"
              /\ UNCHANGED browser
    /\ UNCHANGED << config, batchVars, pureVars, uploader, video, progress, pageVars, pollVars, error, exitCode >>

\* browser.newContext(), outside the try block
NewContext ==
    /\ pc = "newContext"
    /\ calls' = Issue(calls, <<"newContext">>)
    /\ \E ok \in BOOLEAN :
         IF ok
         THEN /\ pc' = "setup"
              /\ UNCHANGED outcome
         ELSE /\ outcome' = Thrown(BrowserError)
              /\ pc' = "done"
    /\ UNCHANGED << config, batchVars, pureVars, uploader, video, browser, progress, pageVars, pollVars,
                    error, exitCode >>

\* SetupContext installing the cookies before the base page is opened
SetupContext_CookiesFirst ==
    /\ pc = "setup"
    /\ IF ~cookies.set
       THEN /\ error' = LoginRequiredError
            /\ pc' = "catch"
            /\ UNCHANGED calls
       ELSE \E r \in StepOutcomes(<<"newPage", "addCookies", "gotoBase", "wait", "pageClose">>) :
              /\ calls' = Issue(calls, r.issued)
              /\ IF r.ok
                 THEN pc' = "navigate" /\ UNCHANGED error
                 ELSE pc' = "catch" /\ error' = BrowserError
    /\ UNCHANGED << config, batchVars, pureVars, uploader, video, browser, progress, pageVars, pollVars,
                    outcome, exitCode >>

\* setupContext
SetupContext ==
    /\ pc = "setup"
    /\ IF ~cookies.set
       THEN /\ error' = LoginRequiredError
            /\ pc' = "catch"
            /\ UNCHANGED calls
       ELSE \E r \in StepOutcomes(<<"newPage", "gotoBase", "wait", "addCookies", "pageClose">>) :
              /\ calls' = Issue(calls, r.issued)
              /\ IF r.ok
                 THEN pc' = "navigate" /\ UNCHANGED error
                 ELSE pc' = "catch" /\ error' = BrowserError
    /\ UNCHANGED << config, batchVars, pureVars, uploader, video, browser, progress, pageVars, pollVars,
                    outcome, exitCode >>

\* upload(): open the upload page, onProgress(10), the login check
NavigateToUpload ==
    /\ pc = "navigate"
    /\ \E r \in StepOutcomes(<<"newPage", "gotoUpload", "wait">>) :
         /\ calls' = Issue(calls, r.issued)
         /\ IF ~r.ok
            THEN /\ pc' = "catch" /\ error' = BrowserError
                 /\ UNCHANGED << progress, navUrl >>
            ELSE /\ progress' = Report(progress, 10)
                 /\ \E url \in NavUrls :
                      /\ navUrl' = url
                      /\ IF IsLoginUrl(url)
                         THEN pc' = "catch" /\ error' = SessionExpiredError
                         ELSE pc' = "attach" /\ UNCHANGED error
    /\ UNCHANGED << config, batchVars, pureVars, uploader, video, browser, modalClicks, buttons, postBtn,
                    pollVars, outcome, exitCode >>

\* AttachFile attaching the file a second time when the first attempt fails
AttachFile_RetryOnce ==
    /\ pc = "attach"
    /\ \E r \in StepOutcomes(<<"setInputFiles", "wait">>) :
         /\ calls' = Issue(calls, r.issued)
         /\ IF r.ok
            THEN /\ progress' = Report(progress, 40)
                 /\ pc' = "dismiss" /\ UNCHANGED error
            ELSE /\ IF calls["setInputFiles"] = 0
                    THEN pc' = "attach" /\ UNCHANGED error
                    ELSE pc' = "catch" /\ error' = BrowserError
                 /\ UNCHANGED progress
    /\ UNCHANGED << config, batchVars, pureVars, uploader, video, browser, pageVars, pollVars, outcome,
                    exitCode >>

\* upload(): setInputFiles, the processing wait, onProgress(40)
AttachFile ==
    /\ pc = "attach"
    /\ \E r \in StepOutcomes(<<"setInputFiles", "wait">>) :
         /\ calls' = Issue(calls, r.issued)
         /\ IF r.ok
            THEN /\ progress' = Report(progress, 40)
                 /\ pc' = "dismiss" /\ UNCHANGED error
            ELSE /\ pc' = "catch" /\ error' = BrowserError
                 /\ UNCHANGED progress
    /\ UNCHANGED << config, batchVars, pureVars, uploader, video, browser, pageVars, pollVars, outcome,
                    exitCode >>

\* upload(): the dismissModals call
DismissModals ==
    /\ pc = "dismiss"
    /\ \E behaviour \in ModalChoices :
         modalClicks' = dismissModals(behaviour)
    /\ calls' = Issue(calls, <<"dismissModals">>)
    /\ pc' = "caption"
    /\ UNCHANGED << config, batchVars, pureVars, uploader, video, browser, progress, navUrl, buttons,
                    postBtn, pollVars, error, outcome, exitCode >>

\* upload(): caption entry and onProgress(60)
SetCaption ==
    /\ pc = "caption"
    /\ \E r \in StepOutcomes(<<"captionClick", "captionFill", "pressEscape", "wait">>) :
         /\ calls' = Issue(calls, r.issued)
         /\ IF r.ok
            THEN /\ progress' = Report(progress, 60)
                 /\ pc' = "find" /\ UNCHANGED error
            ELSE /\ pc' = "catch" /\ error' = BrowserError
                 /\ UNCHANGED progress
    /\ modalClicks' = <<>>
    /\ UNCHANGED << config, batchVars, pureVars, uploader, video, browser, navUrl, buttons, postBtn,
                    pollVars, outcome, exitCode >>

\* upload(): the findPostButton call
FindPostButton ==
    /\ pc = "find"
    /\ \E r \in StepOutcomes(<<"scrollToEnd", "wait", "collectButtons">>) :
         /\ calls' = Issue(calls, r.issued)
         /\ IF r.ok
            THEN /\ \E page \in ButtonChoices :
                      /\ buttons' = FilterHasText(page, LABEL_POST)
                      /\ postBtn' = findPostButton(buttons')
                 /\ pc' = "found" /\ UNCHANGED error
            ELSE /\ pc' = "catch" /\ error' = BrowserError
                 /\ UNCHANGED << buttons, postBtn >>
    /\ UNCHANGED << config, batchVars, pureVars, uploader, video, browser, progress, navUrl, modalClicks,
                    pollVars, outcome, exitCode >>

\* upload(): findPostButton returned null
NoPostButton ==
    /\ pc = "found"
    /\ postBtn = 0
    /\ IF debug
       THEN /\ calls' = Issue(calls, <<"screenshotNoPost">>)
            /\ \E ok \in BOOLEAN :
                 error' = IF ok THEN UploadFailedError("Could not find Post button", Undefined)
                          ELSE BrowserError
       ELSE /\ error' = UploadFailedError("Could not find Post button", Undefined)
            /\ UNCHANGED calls
    /\ pc' = "catch"
    /\ buttons' = <<>>
    /\ UNCHANGED << config, batchVars, pureVars, uploader, video, browser, progress, navUrl, modalClicks,
                    postBtn, pollVars, outcome, exitCode >>

\* the values of UploadOptions.visibility and VideoInfo.visibility
VISIBILITY_EVERYONE == "everyone"
VISIBILITY_FRIENDS == "friends"
VISIBILITY_PRIVATE == "private"
Visibilities == {VISIBILITY_EVERYONE, VISIBILITY_FRIENDS, VISIBILITY_PRIVATE}

\* options.visibility of the upload() call uploadMany is making
OptionsVisibility ==
    IF "visibility" \in DOMAIN videos[started] THEN videos[started].visibility ELSE Undefined

\* ClickPost operating a visibility selector first when the request is not public
ClickPost_SelectsVisibility ==
    /\ pc = "found"
    /\ postBtn /= 0
    /\ LET selector == IF OptionsVisibility \in {Undefined, VISIBILITY_EVERYONE}
                       THEN <<>> ELSE <<"scrollToEnd">>
       IN  \E r \in StepOutcomes(selector \o <<"scrollIntoView", "wait", "postClick">>) :
             /\ calls' = Issue(calls, r.issued)
             /\ IF r.ok
                THEN /\ progress' = Report(progress, 70)
                     /\ pc' = "poll" /\ UNCHANGED error
                ELSE /\ pc' = "catch" /\ error' = BrowserError
                     /\ UNCHANGED progress
    /\ buttons' = <<>>
    /\ postBtn' = 1
    /\ UNCHANGED << config, batchVars, pureVars, uploader, video, browser, navUrl, modalClicks, pollVars,
                    outcome, exitCode >>

\* upload(): the control was found; scroll to it, click it, onProgress(70)
ClickPost ==
    /\ pc = "found"
    /\ postBtn /= 0
    /\ \E r \in StepOutcomes(<<"scrollIntoView", "wait", "postClick">>) :
         /\ calls' = Issue(calls, r.issued)
         /\ IF r.ok
            THEN /\ progress' = Report(progress, 70)
                 /\ pc' = "poll" /\ UNCHANGED error
            ELSE /\ pc' = "catch" /\ error' = BrowserError
                 /\ UNCHANGED progress
    /\ buttons' = <<>>
    /\ postBtn' = 1
    /\ UNCHANGED << config, batchVars, pureVars, uploader, video, browser, navUrl, modalClicks, pollVars,
                    outcome, exitCode >>

\* PollTick probing the exit-confirmation dialog before it tests the URL
PollTick_ExitCheckFirst ==
    /\ pc = "poll"
    /\ i < Iterations(TimeoutSeconds(timeout))
    /\ \E waitOk \in BOOLEAN :
         IF ~waitOk
         THEN /\ calls' = Issue(calls, <<"wait">>)
              /\ pc' = "catch" /\ error' = BrowserError
              /\ UNCHANGED << progress, pollVars >>
         ELSE \E url \in PollUrls, exit \in ExitModalStates :
              LET reported == Report(progress, TickProgress(i, TimeoutSeconds(timeout)))
              IN  /\ tickUrl' = url
                  /\ tickExit' = exit
                  /\ UNCHANGED error
                  /\ calls' = Issue(calls, <<"wait", "exitCheck">>)
                  /\ IF exit = "visible"
                     THEN /\ progress' = reported
                          /\ pollEnd' = "exit" /\ pc' = "polled" /\ UNCHANGED i
                     ELSE IF IsSuccessUrl(url)
                     THEN /\ progress' = Report(reported, 100)
                          /\ pollEnd' = "success" /\ pc' = "polled" /\ UNCHANGED i
                     ELSE /\ progress' = reported
                          /\ i' = i + 1 /\ UNCHANGED << pollEnd, pc >>
    /\ UNCHANGED << config, batchVars, pureVars, uploader, video, browser, pageVars, outcome, exitCode >>

\* waitForUploadComplete: one iteration of the loop
PollTick ==
    /\ pc = "poll"
    /\ i < Iterations(TimeoutSeconds(timeout))
    /\ \E waitOk \in BOOLEAN :
         IF ~waitOk
         THEN /\ calls' = Issue(calls, <<"wait">>)
              /\ pc' = "catch" /\ error' = BrowserError
              /\ UNCHANGED << progress, pollVars >>
         ELSE \E url \in PollUrls, exit \in ExitModalStates :
              LET reported == Report(progress, TickProgress(i, TimeoutSeconds(timeout)))
              IN  /\ tickUrl' = url
                  /\ tickExit' = exit
                  /\ UNCHANGED error
                  /\ IF IsSuccessUrl(url)
                     THEN /\ progress' = Report(reported, 100)
                          /\ calls' = Issue(calls, <<"wait">>)
                          /\ pollEnd' = "success"
                          /\ pc' = "polled"
                          /\ UNCHANGED i
                     ELSE /\ progress' = reported
                          /\ calls' = Issue(calls, <<"wait", "exitCheck">>)
                          /\ IF exit = "visible"
                             THEN pollEnd' = "exit" /\ pc' = "polled" /\ UNCHANGED i
                             ELSE i' = i + 1 /\ UNCHANGED << pollEnd, pc >>
    /\ UNCHANGED << config, batchVars, pureVars, uploader, video, browser, pageVars, outcome, exitCode >>

\* waitForUploadComplete: the loop ran out of iterations
PollExhausted ==
    /\ pc = "poll"
    /\ i >= Iterations(TimeoutSeconds(timeout))
    /\ pollEnd' = "timeout"
    /\ pc' = "polled"
    /\ UNCHANGED << config, batchVars, pureVars, uploader, video, browser, calls, progress, pageVars, i,
                    tickUrl, tickExit, error, outcome, exitCode >>

\* upload(): after waitForUploadComplete returned
UploadResult ==
    /\ pc = "polled"
    /\ IF pollEnd = "success"
       THEN /\ pc' = "finally"
            /\ UNCHANGED << calls, error >>
       ELSE /\ pc' = "catch"
            /\ IF debug
               THEN /\ calls' = Issue(calls, <<"screenshotFailed">>)
                    /\ \E ok \in BOOLEAN :
                         error' = IF ok
                                  THEN UploadFailedError("Upload did not complete successfully",
                                                         "debug_upload_failed.png")
                                  ELSE BrowserError
               ELSE /\ error' = UploadFailedError("Upload did not complete successfully",
                                                  Undefined)
                    /\ UNCHANGED calls
    /\ UNCHANGED << config, batchVars, pureVars, uploader, video, browser, progress, pageVars, pollVars,
                    outcome, exitCode >>

\* upload(): the catch block
Catch ==
    /\ pc = "catch"
    /\ error' = IF error.name \in {"LoginRequiredError", "SessionExpiredError",
                                   "UploadFailedError"}
                THEN error
                ELSE UploadFailedError(StringOf(error), Undefined)
    /\ pc' = "finally"
    /\ UNCHANGED << config, batchVars, pureVars, uploader, video, browser, calls, progress, pageVars,
                    pollVars, outcome, exitCode >>

\* Finally reporting completion whenever upload() ends
Finally_ReportsCompletion ==
    /\ pc = "finally"
    /\ calls' = Issue(calls, <<"close">>)
    /\ openBrowsers' = openBrowsers - 1
    /\ UNCHANGED launched
    /\ progress' = Report(progress, 100)
    /\ outcome' = IF error = NoError THEN Returned ELSE Thrown(error)
    /\ pc' = "done"
    /\ UNCHANGED << config, batchVars, pureVars, uploader, video, pageVars, pollVars, error, exitCode >>

\* upload(): the finally block, then the return or the throw
Finally ==
    /\ pc = "finally"
    /\ calls' = Issue(calls, <<"close">>)
    /\ openBrowsers' = openBrowsers - 1
    /\ UNCHANGED launched
    /\ outcome' = IF error = NoError THEN Returned ELSE Thrown(error)
    /\ pc' = "done"
    /\ UNCHANGED << config, batchVars, pureVars, uploader, video, progress, pageVars, pollVars, error, exitCode >>

\* the UploadResult uploadMany stores for what upload() returned or threw
ToResult(o) ==
    IF o.type = "returned"
    THEN [success |-> o.success, status |-> o.status, error |-> Undefined]
    ELSE [success |-> FALSE, status |-> "failed", error |-> StringOf(o.error)]

\* the state of upload() at its call: nothing issued, reported or thrown yet
FreshUpload ==
    /\ launched' = 0
    /\ calls' = [o \in OpNames |-> 0]
    /\ progress' = <<>>
    /\ navUrl' = <<>>
    /\ modalClicks' = <<>>
    /\ buttons' = <<>>
    /\ postBtn' = -1
    /\ i' = 0
    /\ pollEnd' = "none"
    /\ tickUrl' = <<>>
    /\ tickExit' = "hidden"
    /\ error' = NoError
    /\ outcome' = NoOutcome

\* uploadMany: the loop test and the call of upload() for request idx
BatchNext ==
    /\ pc = "batch"
    /\ idx < Len(videos)
    /\ video' = videos[idx + 1]
    /\ started' = started + 1
    /\ FreshUpload
    /\ pc' = "validate"
    /\ UNCHANGED << config, uploader, pureVars, openBrowsers, exitCode, videos, hasCallback,
                    idx, results, completed, issuedLog >>

\* BatchCollect letting the error of a failed request end uploadMany
BatchCollect_AbortOnFailure ==
    /\ pc = "done"
    /\ entry = "batch"
    /\ IF outcome.type = "thrown"
       THEN /\ pc' = "returned"
            /\ UNCHANGED << idx, results, completed, issuedLog >>
       ELSE /\ results' = Append(results, ToResult(outcome))
            /\ issuedLog' = Logged(issuedLog, calls)
            /\ completed' = IF hasCallback
                            THEN Append(completed, [index |-> idx, result |-> ToResult(outcome)])
                            ELSE completed
            /\ idx' = idx + 1
            /\ pc' = "batch"
    /\ UNCHANGED << config, uploader, pureVars, video, browser, calls, progress, pageVars,
                    pollVars, error, outcome, exitCode, videos, hasCallback, started >>

\* BatchCollect calling onVideoComplete for successful requests only
BatchCollect_CallbackOnSuccessOnly ==
    /\ pc = "done"
    /\ entry = "batch"
    /\ results' = Append(results, ToResult(outcome))
    /\ issuedLog' = Logged(issuedLog, calls)
    /\ completed' = IF hasCallback /\ outcome.type = "returned"
                    THEN Append(completed, [index |-> idx, result |-> ToResult(outcome)])
                    ELSE completed
    /\ idx' = idx + 1
    /\ pc' = "batch"
    /\ UNCHANGED << config, uploader, pureVars, video, browser, calls, progress, pageVars,
                    pollVars, error, outcome, exitCode, videos, hasCallback, started >>

\* uploadMany: upload() returned or threw; store the result, call onVideoComplete
BatchCollect ==
    /\ pc = "done"
    /\ entry = "batch"
    /\ results' = Append(results, ToResult(outcome))
    /\ issuedLog' = Logged(issuedLog, calls)
    /\ completed' = IF hasCallback
                    THEN Append(completed, [index |-> idx, result |-> ToResult(outcome)])
                    ELSE completed
    /\ idx' = idx + 1
    /\ pc' = "batch"
    /\ UNCHANGED << config, uploader, pureVars, video, browser, calls, progress, pageVars,
                    pollVars, error, outcome, exitCode, videos, hasCallback, started >>

\* uploadMany: the loop ends, results is returned
BatchReturn ==
    /\ pc = "batch"
    /\ idx >= Len(videos)
    /\ pc' = "returned"
    /\ UNCHANGED << config, uploader, pureVars, batchVars, video, browser, calls, progress,
                    pageVars, pollVars, error, outcome, exitCode >>

\* a TikTokUploader with its session given or not, about to run uploadMany
InitBatch ==
    /\ entry = "batch"
    /\ scenario = NoScenario
    /\ sources \in [param : {NoString, RawSession}, env : {NoString}, file : {NoString}]
    /\ session = ConstructSession(sources.param, sources.env)
    /\ cookies = ConstructCookies(session)
    /\ timeout \in BatchTimeouts
    /\ debug \in BOOLEAN
    /\ hasProgress = FALSE
    /\ pc = "batch"
    /\ videos \in VideoLists
    /\ hasCallback \in BOOLEAN
    /\ video = [exists |-> FALSE, ext |-> <<>>, size |-> 0]
    /\ launched = 0
    /\ openBrowsers = 0
    /\ calls = [o \in OpNames |-> 0]
    /\ progress = <<>>
    /\ navUrl = <<>>
    /\ modalClicks = <<>>
    /\ buttons = <<>>
    /\ postBtn = -1
    /\ i = 0
    /\ pollEnd = "none"
    /\ tickUrl = <<>>
    /\ tickExit = "hidden"
    /\ error = NoError
    /\ outcome = NoOutcome
    /\ exitCode = -1
    /\ idx = 0
    /\ started = 0
    /\ results = <<>>
    /\ completed = <<>>
    /\ issuedLog = <<>>
    /\ NoPure

Next ==
    \/ CmdUploadStart
    \/ CmdUploadEnd
    \/ Validate
    \/ Launch
    \/ NewContext
    \/ SetupContext
    \/ NavigateToUpload
    \/ AttachFile
    \/ DismissModals
    \/ SetCaption
    \/ FindPostButton
    \/ NoPostButton
    \/ ClickPost
    \/ PollTick
    \/ PollExhausted
    \/ UploadResult
    \/ Catch
    \/ Finally

Spec == Init /\ [][Next]_vars

\* no upload is in progress: a pure function of the uploader is applied on its own
Idle ==
    /\ entry = "pure"
    /\ scenario = NoScenario
    /\ sources = [param |-> NoString, env |-> NoString, file |-> NoString]
    /\ session = NoString
    /\ cookies = NoCookies
    /\ timeout = DEFAULT_TIMEOUT_MS
    /\ debug = FALSE
    /\ hasProgress = FALSE
    /\ video = [exists |-> FALSE, ext |-> <<>>, size |-> 0]
    /\ launched = 0
    /\ openBrowsers = 0
    /\ calls = [o \in OpNames |-> 0]
    /\ progress = <<>>
    /\ navUrl = <<>>
    /\ modalClicks = <<>>
    /\ buttons = <<>>
    /\ postBtn = -1
    /\ i = 0
    /\ pollEnd = "none"
    /\ tickUrl = <<>>
    /\ tickExit = "hidden"
    /\ error = NoError
    /\ outcome = NoOutcome
    /\ exitCode = -1
    /\ NoBatch

nonPureVars ==
    << config, uploader, batchVars, video, browser, calls, progress, pageVars, pollVars,
       error, outcome, exitCode >>

\* validateVideo about to be applied to a file
InitValidate ==
    /\ Idle
    /\ pc = "apply"
    /\ fn = "validateVideo"
    /\ arg \in Files
    /\ ret = <<>>

\* one call of validateVideo
ApplyValidateVideo ==
    /\ pc = "apply"
    /\ fn = "validateVideo"
    /\ ret' = validateVideo(arg)
    /\ pc' = "applied"
    /\ UNCHANGED << nonPureVars, fn, arg >>

NextValidate == ApplyValidateVideo

SpecValidate == InitValidate /\ [][NextValidate]_vars

\* parseSession about to be applied: to the token interactiveLogin makes of a
\* cookie list, or to a session string given by hand
InitCodec ==
    /\ Idle
    /\ pc = "apply"
    /\ fn = "parseSession"
    /\ arg \in [kind : {"login"}, authCookies : CookieLists, session : {NoString}]
               \cup [kind : {"given"}, authCookies : {<<>>}, session : GivenSessions]
    /\ ret = <<>>

\* interactiveLogin: the captured cookies are encoded as the session token
InteractiveLogin ==
    /\ pc = "apply"
    /\ fn = "parseSession"
    /\ arg.kind = "login"
    /\ arg.session = NoString
    /\ arg' = [arg EXCEPT !.session = EncodeSession(arg.authCookies)]
    /\ UNCHANGED << nonPureVars, pc, fn, ret >>

\* one call of parseSession
ApplyParseSession ==
    /\ pc = "apply"
    /\ fn = "parseSession"
    /\ arg.session /= NoString
    /\ ret' = parseSession(arg.session)
    /\ pc' = "applied"
    /\ UNCHANGED << nonPureVars, fn, arg >>

NextCodec ==
    \/ InteractiveLogin
    \/ ApplyParseSession

SpecCodec == InitCodec /\ [][NextCodec]_vars

NextBatch ==
    \/ BatchNext
    \/ BatchCollect
    \/ BatchReturn
    \/ Validate
    \/ Launch
    \/ NewContext
    \/ SetupContext
    \/ NavigateToUpload
    \/ AttachFile
    \/ DismissModals
    \/ SetCaption
    \/ FindPostButton
    \/ NoPostButton
    \/ ClickPost
    \/ PollTick
    \/ PollExhausted
    \/ UploadResult
    \/ Catch
    \/ Finally

SpecBatch == InitBatch /\ [][NextBatch]_vars

\* ------------------------------------------------------------------- claims
\* upload() has returned or thrown
UploadEnded == outcome.type /= "pending"

NonDecreasing(seq) == \A j \in 1..(Len(seq) - 1) : seq[j] <= seq[j + 1]

NoBrowserCalls == \A o \in OpNames : calls[o] = 0

\* the values reported by waitForUploadComplete: those after the five milestones
\* 0, 10, 40, 60, 70 of upload()
TickValues == SubSeq(progress, 6, Len(progress))

\* poll ticks performed so far
TicksPerformed == IF pollEnd \in {"success", "exit"} THEN i + 1 ELSE i

\* C1: whenever upload() has ended after launching a browser, that browser has
\* been closed exactly once and is no longer open, on every exit path.
C1_BrowserClosedExactlyOnce ==
    /\ calls["close"] <= 1
    /\ (UploadEnded /\ launched > 0) => (calls["close"] = 1 /\ openBrowsers = 0)

\* no session parameter, no environment variable, no session file
NoSessionAvailable ==
    /\ sources.param = NoString
    /\ sources.env = NoString
    /\ sources.file = NoString

\* C2: with no session available (and a valid video), no browser is ever
\* launched, upload() ends with LoginRequiredError, and the CLI exits with 1.
C2_NoSessionNoBrowser ==
    (NoSessionAvailable /\ validateVideo(video) = NoError) =>
        /\ launched = 0
        /\ calls["launch"] = 0
        /\ UploadEnded => outcome.error.name = "LoginRequiredError"
        /\ pc = "exit" => exitCode = 1

\* C3: for an asset that fails validation, upload() ends with exactly that
\* failure, and no browser is launched, no browser call is issued and the
\* progress callback is never invoked.
C3_InvalidAssetNoBrowserWork ==
    LET invalid == \/ ~video.exists
                   \/ ToLowerCase(video.ext) \notin {EXT_MP4, EXT_MOV, EXT_WEBM}
                   \/ video.size > 287 * 1024 * 1024
    IN  invalid =>
          /\ launched = 0
          /\ NoBrowserCalls
          /\ progress = <<>>
          /\ (pc \notin {"cli", "validate"} /\ (pc = "exit" => UploadEnded)) =>
                /\ pc \in {"done", "exit"}
                /\ outcome.type = "thrown"
                /\ outcome.error.name \in
                     {"VideoNotFoundError", "UnsupportedFormatError", "VideoTooLargeError"}

C3_Witness ==
    /\ pc = "done"
    /\ hasProgress
    /\ cookies.set
    /\ outcome.type = "thrown"
    /\ outcome.error.name = "VideoTooLargeError"

\* C4: in a successful upload with a progress callback, the values reported
\* over the whole upload never decrease and the last one is 100.
C4_ProgressNonDecreasingTo100 ==
    (UploadEnded /\ outcome.success /\ hasProgress) =>
        /\ NonDecreasing(progress)
        /\ progress /= <<>>
        /\ progress[Len(progress)] = 100

\* C5: while polling, every value reported on a tick before 100 is at most 95
\* and the tick values never decrease; when a tick sees a success URL, 100 is
\* reported on that tick, polling stops and upload() returns success.
C5_PollProgress ==
    /\ (pc \in {"poll", "polled"} /\ hasProgress) =>
          LET n == TicksPerformed
          IN  /\ \A j \in 1..n : TickValues[j] <= 95 /\ TickValues[j] >= 0
              /\ \A j \in 1..(n - 1) : TickValues[j] <= TickValues[j + 1]
              /\ IF pollEnd = "success"
                 THEN Len(TickValues) = n + 1 /\ TickValues[n + 1] = 100
                 ELSE Len(TickValues) = n
    /\ pollEnd = "success" => (pc /= "poll" /\ IsSuccessUrl(tickUrl))
    /\ (pollEnd = "success" /\ UploadEnded) => outcome = Returned

C5_Witness ==
    /\ pc = "polled"
    /\ pollEnd = "success"
    /\ hasProgress
    /\ i >= 2
    /\ TickValues[i] < 95
    /\ TickValues[i + 1] = 95

\* C6: when a poll tick sees the exit-confirmation dialog, polling stops and
\* upload() fails with a failure that is not the timeout failure.
C6_ExitDialogIsNotTimeoutFailure ==
    /\ pollEnd = "exit" => pc /= "poll"
    /\ (pollEnd = "exit" /\ UploadEnded) =>
          /\ outcome.type = "thrown"
          /\ outcome.error.message /= "Upload did not complete successfully"

\* C7: polling runs at most floor(T/5) ticks, and when it runs out of ticks
\* upload() fails with UploadFailedError "Upload did not complete successfully".
C7_TimeoutFailure ==
    /\ TicksPerformed * 5 <= timeout \div 1000
    /\ (pollEnd = "timeout" /\ UploadEnded) =>
          /\ outcome.type = "thrown"
          /\ outcome.error.name = "UploadFailedError"
          /\ outcome.error.message = "Upload did not complete successfully"

\* C8: when the upload page's URL contains "login" in any letter case, no file
\* is attached, no caption is entered, nothing is clicked, no polling happens,
\* and upload() throws SessionExpiredError itself.
C8_LoginRedirectIsSessionExpired ==
    (navUrl /= <<>> /\ Includes(ToLowerCase(navUrl), <<"l", "o", "g", "i", "n">>)) =>
        /\ pc \in {"catch", "finally", "done", "exit"}
        /\ calls["setInputFiles"] = 0
        /\ calls["captionClick"] = 0 /\ calls["captionFill"] = 0
        /\ calls["postClick"] = 0
        /\ calls["exitCheck"] = 0 /\ i = 0 /\ pollEnd = "none"
        /\ error.name = "SessionExpiredError"
        /\ UploadEnded => outcome = Thrown(SessionExpiredError)

C8_Witness ==
    /\ pc = "done"
    /\ navUrl = LoginUrlMixed
    /\ outcome = Thrown(SessionExpiredError)

\* C9: when findPostButton returns null, nothing is clicked, no polling
\* happens, and upload() throws UploadFailedError "Could not find Post button",
\* with diagnostics on or off and whether or not the screenshot succeeds.
C9_NoPostButtonFailure ==
    postBtn = 0 =>
        /\ calls["postClick"] = 0
        /\ calls["exitCheck"] = 0 /\ i = 0 /\ pollEnd = "none"
        /\ UploadEnded =>
              /\ outcome.type = "thrown"
              /\ outcome.error.name = "UploadFailedError"
              /\ outcome.error.message = "Could not find Post button"

\* C10: the control findPostButton returns has trimmed text "Post", a bounding
\* box, and a width above 100.
C10_ReturnedControlIsExactAndWide ==
    (pc = "found" /\ postBtn >= 1) =>
        /\ Trim(buttons[postBtn].text) = <<"P", "o", "s", "t">>
        /\ buttons[postBtn].box.present
        /\ buttons[postBtn].box.width > 100

C10_Witness ==
    /\ pc = "found"
    /\ postBtn = 2
    /\ buttons[1].box.present
    /\ buttons[1].text /= LABEL_POST
    /\ buttons[1].box.width > 100

\* ------------------------------------------------------------- uploadMany
\* C11: uploadMany stores one outcome per request, in request order; a request
\* whose upload() throws (validation or any other error) yields the failure
\* record carrying that error, and the requests after it are still uploaded;
\* at return there are as many outcomes, and as many upload() calls, as requests.
C11_BatchOutcomes ==
    entry = "batch" =>
        /\ Len(results) = idx
        /\ started <= Len(videos)
        /\ started \in {idx, idx + 1}
        /\ pc = "returned" => (Len(results) = Len(videos) /\ started = Len(videos))
        /\ \A k \in 1..Len(results) :
              /\ results[k].success => validateVideo(videos[k]) = NoError
              /\ validateVideo(videos[k]) /= NoError =>
                    /\ ~results[k].success
                    /\ results[k].status = "failed"
                    /\ results[k].error = StringOf(validateVideo(videos[k]))
        /\ (pc = "batch" /\ idx >= 1 /\ outcome.type = "thrown") =>
              /\ ~results[idx].success
              /\ results[idx].status = "failed"
              /\ results[idx].error = StringOf(outcome.error)
        /\ (pc = "batch" /\ idx >= 1 /\ outcome.type = "returned") =>
              /\ results[idx].success
              /\ results[idx].status = "uploaded"

C11_Witness ==
    /\ pc = "returned"
    /\ Len(videos) = 2
    /\ validateVideo(videos[1]) /= NoError
    /\ ~results[1].success
    /\ results[2].success

\* C12: with onVideoComplete given, it has been called once for every stored
\* outcome and for no other request, with indices 0, 1, ... in order and with
\* the outcome stored at that index; while request idx is being uploaded the
\* calls made so far are exactly those of the requests before it.
C12_CallbackPerRequestInOrder ==
    (entry = "batch" /\ hasCallback) =>
        /\ Len(completed) = Len(results)
        /\ Len(completed) = idx
        /\ \A k \in 1..Len(completed) :
              /\ completed[k].index = k - 1
              /\ completed[k].result = results[k]
        /\ pc = "returned" => Len(completed) = Len(videos)

C12_Witness ==
    /\ pc = "returned"
    /\ hasCallback
    /\ Len(completed) = 2
    /\ ~completed[1].result.success
    /\ completed[2].result.success

\* C13: while uploadMany runs, at most one browser is open.
C13_AtMostOneBrowserOpen ==
    entry = "batch" => openBrowsers <= 1

\* ------------------------------------------------------------- error kinds
TypedErrorNames ==
    { "LoginRequiredError", "SessionExpiredError", "UploadFailedError",
      "VideoNotFoundError", "VideoTooLargeError", "UnsupportedFormatError" }

\* C14: every error upload() throws is one of the six typed errors, also when
\* the browser launch or the context creation is what failed.
C14_EscapingErrorsAreTyped ==
    (UploadEnded /\ outcome.type = "thrown") => outcome.error.name \in TypedErrorNames

\* ------------------------------------------------------------- one outcome
\* the Post button was clicked and a poll tick after it saw a success URL
ClickedThenSuccessSeen ==
    /\ calls["postClick"] = 1
    /\ pollEnd = "success"
    /\ calls["wait"] >= 1
    /\ Includes(tickUrl, CONTENT_PATH) \/ Includes(tickUrl, POSTS_PATH)

OneOutcomePerExecution ==
    (outcome /= NoOutcome /\ started' = started) => outcome' = outcome

\* C18: upload() returns success only when the Post button was clicked and a
\* later poll tick saw a URL containing /content or /posts; every other ended
\* execution threw; an execution's outcome, once produced, is never replaced.
C18_SuccessOnlyAfterClickAndSuccessUrl ==
    /\ [](/\ outcome.type = "returned" =>
               (ClickedThenSuccessSeen /\ outcome.success /\ outcome.error = NoError)
          /\ (UploadEnded /\ ~ClickedThenSuccessSeen) =>
               (outcome.type = "thrown" /\ ~outcome.success))
    /\ [][OneOutcomePerExecution]_vars

C18_Witness ==
    /\ outcome = Returned
    /\ i >= 1
    /\ tickUrl = PostsUrl

\* ------------------------------------------------------------- step order
NonLoginUploadPage == navUrl /= <<>> /\ ~Includes(ToLowerCase(navUrl), LOGIN)

PollStarted == i > 0 \/ pollEnd /= "none" \/ calls["exitCheck"] > 0

\* C19: the steps of one upload happen in the fixed order, each reached only
\* through the one before it: a browser is launched only for a valid video,
\* cookies are installed after the base page was opened, the upload page is
\* opened after the cookies were installed, the file is attached on a
\* non-login upload page, modals are dismissed after the attachment, the
\* caption is entered after that, the Post button is looked for and clicked
\* after the caption, and polling happens only after the click.
C19_FixedStepOrder ==
    /\ calls["launch"] > 0 => validateVideo(video) = NoError
    /\ calls["newContext"] > 0 => (calls["launch"] = 1 /\ launched = 1)
    /\ calls["gotoBase"] > 0 => (calls["newContext"] = 1 /\ cookies.set)
    /\ calls["addCookies"] > 0 => calls["gotoBase"] = 1
    /\ calls["gotoUpload"] > 0 => (calls["addCookies"] = 1 /\ calls["pageClose"] = 1)
    /\ calls["setInputFiles"] > 0 => (calls["gotoUpload"] = 1 /\ NonLoginUploadPage)
    /\ calls["dismissModals"] > 0 => calls["setInputFiles"] = 1
    /\ calls["captionClick"] > 0 => calls["dismissModals"] = 1
    /\ calls["collectButtons"] > 0 => (calls["captionFill"] = 1 /\ calls["pressEscape"] = 1)
    /\ calls["postClick"] > 0 =>
          /\ calls["collectButtons"] = 1 /\ postBtn >= 1
          /\ calls["addCookies"] = 1 /\ NonLoginUploadPage
          /\ calls["setInputFiles"] = 1 /\ calls["captionFill"] = 1
    /\ PollStarted => calls["postClick"] = 1

C19_Witness ==
    /\ pc = "polled"
    /\ i >= 1
    /\ calls["postClick"] = 1
    /\ calls["exitCheck"] >= 1

\* ------------------------------------------------------------- dismissModals
CompletedClicks == {k \in 1..Len(modalClicks) : modalClicks[k].completed}

\* C20: dismissModals is called once per upload, after the file was attached
\* and before the caption is entered; one call completes at most one click,
\* and the label it clicks is the first one it found visible.
C20_DismissModalsClicksFirstVisibleOnce ==
    /\ calls["dismissModals"] <= 1
    /\ calls["dismissModals"] = 1 => calls["setInputFiles"] = 1
    /\ calls["captionClick"] > 0 => calls["dismissModals"] = 1
    /\ pc = "caption" =>
          /\ Cardinality(CompletedClicks) <= 1
          /\ Len(modalClicks) <= 1

\* ------------------------------------------------------------- validateVideo
\* C17: validateVideo reports the first violated check, in the order
\* existence, format (lower-cased extension in .mp4, .mov, .webm), size
\* (more than 287 * 1024 * 1024 bytes), and succeeds otherwise, so also at
\* exactly 287 MB.
C17_ValidateVideoIsReferenceProcedure ==
    (fn = "validateVideo" /\ pc = "applied") =>
        LET supported == \E f \in {EXT_MP4, EXT_MOV, EXT_WEBM} : ToLowerCase(arg.ext) = f
            tooLarge == arg.size > 287 * 1024 * 1024
        IN  /\ ~arg.exists => ret.name = "VideoNotFoundError"
            /\ (arg.exists /\ ~supported) => ret.name = "UnsupportedFormatError"
            /\ (arg.exists /\ supported /\ tooLarge) => ret.name = "VideoTooLargeError"
            /\ (arg.exists /\ supported /\ ~tooLarge) => ret = NoError

C17_Witness ==
    /\ fn = "validateVideo"
    /\ pc = "applied"
    /\ arg.exists
    /\ arg.ext = <<".", "W", "E", "B", "M">>
    /\ arg.size = 287 * 1024 * 1024
    /\ ret = NoError

\* ------------------------------------------------------------- parseSession
\* C15: parseSession applied to the token interactiveLogin made of a cookie
\* list returns that list: the same records in the same order.
C15_SessionRoundTrip ==
    (fn = "parseSession" /\ pc = "applied" /\ arg.kind = "login") =>
        /\ ret.set
        /\ ret.list = arg.authCookies

C15_Witness ==
    /\ fn = "parseSession"
    /\ pc = "applied"
    /\ arg.kind = "login"
    /\ Len(arg.authCookies) = 2
    /\ arg.authCookies[1] = CookieRecord(SESSIONID, <<"a", "\"", "b">>, TIKTOK_DOMAIN, ROOT_PATH)
    /\ arg.authCookies[2] /= arg.authCookies[1]
    /\ ret.list = arg.authCookies

IsStringMember(members, key) ==
    \E k \in 1..Len(members) : members[k][1] = key /\ members[k][2].t = "str"

\* a decoded value that is a cookie record: an object with string fields
\* name, value, domain and path
IsCookieRecord(j) ==
    /\ j.t = "obj"
    /\ \A key \in {KEY_NAME, KEY_VALUE, KEY_DOMAIN, KEY_PATH} : IsStringMember(j.v, key)

\* the session string is the base64 JSON of a non-empty list of cookie records
IsCookieListEncoding(s) ==
    LET parsed == JsonParse(Utf8ToString(Base64Decode(s)))
    IN  /\ parsed.ok
        /\ parsed.val.t = "arr"
        /\ parsed.val.v /= <<>>
        /\ \A k \in 1..Len(parsed.val.v) : IsCookieRecord(parsed.val.v[k])

\* C16: for a session string that is not the encoding of a list of cookie
\* records (the empty list included), parseSession returns the two records
\* sessionid and sessionid_ss with the string as value, domain .tiktok.com, path /.
C16_FallbackForNonCookieLists ==
    (fn = "parseSession" /\ pc = "applied" /\ ~IsCookieListEncoding(arg.session)) =>
        /\ Len(ret.list) = 2
        /\ ret.list[1] = CookieRecord(SESSIONID, arg.session, <<".", "t", "i", "k", "t", "o", "k", ".", "c", "o", "m">>, <<"/">>)
        /\ ret.list[2] = CookieRecord(SESSIONID_SS, arg.session, <<".", "t", "i", "k", "t", "o", "k", ".", "c", "o", "m">>, <<"/">>)

\* ------------------------------------------------------------- findPostButton
\* candidate k could be inspected, its trimmed text is exactly "Post" and its
\* bounding box is wider than 100
SatisfiesBoth(k) ==
    /\ ~buttons[k].throws
    /\ buttons[k].box.present
    /\ Trim(buttons[k].text) = <<"P", "o", "s", "t">>
    /\ buttons[k].box.width > 100

\* C21: findPostButton returns the first candidate, in document order, whose
\* trimmed text is exactly "Post" and whose box is wider than 100, candidates
\* whose inspection throws being skipped; it returns null exactly when no
\* candidate satisfies both; the document was scrolled to its end before the
\* candidates were collected.
C21_FirstMatchingCandidateOrNull ==
    /\ calls["collectButtons"] > 0 => calls["scrollToEnd"] = 1
    /\ pc = "found" =>
          /\ calls["scrollToEnd"] = 1 /\ calls["collectButtons"] = 1
          /\ postBtn >= 1 =>
                /\ SatisfiesBoth(postBtn)
                /\ \A k \in 1..(postBtn - 1) : ~SatisfiesBoth(k)
          /\ postBtn = 0 <=> (\A k \in 1..Len(buttons) : ~SatisfiesBoth(k))

C21_Witness ==
    /\ pc = "found"
    /\ postBtn = 2
    /\ buttons[1].throws
    /\ Trim(buttons[1].text) = <<"P", "o", "s", "t">>

\* ------------------------------------------------------------- no retries
OnceOnlySteps ==
    { "launch", "newContext", "gotoBase", "addCookies", "gotoUpload", "setInputFiles",
      "dismissModals", "captionClick", "captionFill", "collectButtons", "postClick" }

\* after a step of the current upload() failed, nothing but browser.close() is issued
FailureEndsAttempt ==
    ((error /= NoError \/ outcome.type = "thrown") /\ started' = started) =>
        \A op \in OpNames \ {"close"} : calls'[op] = calls[op]

\* C22: within one upload() the browser launch, cookie installation,
\* upload-page navigation, file attachment, caption entry and Post click are
\* each issued at most once, and after the first failing step nothing more
\* is issued but the close; uploadMany calls upload() exactly once for each
\* request, whether it succeeds or fails.
C22_NoRetries ==
    /\ [](/\ \A op \in OnceOnlySteps : calls[op] <= 1
          /\ entry = "batch" =>
                /\ started = IF pc \in {"batch", "returned"} THEN idx ELSE idx + 1
                /\ pc \notin {"batch", "returned"} => video = videos[started]
                /\ pc = "returned" => started = Len(videos))
    /\ [][FailureEndsAttempt]_vars

C22_Witness ==
    /\ pc = "returned"
    /\ Len(videos) = 2
    /\ started = 2
    /\ validateVideo(videos[1]) = NoError
    /\ results[1].error = "UploadFailedError: Error: browser operation failed"
    /\ ~results[2].success

\* ------------------------------------------------------------- diagnostics
Screenshots == calls["screenshotNoPost"] + calls["screenshotFailed"]

CompletionNotDetected == pollEnd \in {"exit", "timeout"}

\* C23: a screenshot is taken exactly when diagnostics are on and upload()
\* fails for a missing Post button or for an undetected completion, under a
\* file name of its own for each of the two; with diagnostics on the failure
\* carries the path of that screenshot, with diagnostics off no screenshot is
\* taken and no path is carried.
C23_ScreenshotIffDebugFailure ==
    /\ ~debug => Screenshots = 0
    /\ calls["screenshotNoPost"] > 0 => (debug /\ postBtn = 0)
    /\ calls["screenshotFailed"] > 0 => (debug /\ CompletionNotDetected)
    /\ UploadEnded =>
          /\ (debug /\ postBtn = 0) =>
                /\ calls["screenshotNoPost"] = 1 /\ calls["screenshotFailed"] = 0
                /\ outcome.error.screenshotPath = "debug_no_post_button.png"
          /\ (debug /\ CompletionNotDetected) =>
                /\ calls["screenshotFailed"] = 1 /\ calls["screenshotNoPost"] = 0
                /\ outcome.error.screenshotPath = "debug_upload_failed.png"
          /\ ~debug => outcome.error.screenshotPath = Undefined

\* ------------------------------------------- two requests, one browser behaviour
\* the largest position, among the awaited calls of one upload(), at which the
\* browser is made to throw
MaxFailAt == 24

\* the calls whose rejection upload() does not swallow: browser.close() does not
\* throw, dismissModals and the exit-dialog probe catch what their calls throw
AwaitedOps == OpNames \ {"close", "dismissModals", "exitCheck"}

RECURSIVE SumOver(_, _)
SumOver(c, ops) ==
    IF ops = {} THEN 0
    ELSE LET o == CHOOSE x \in ops : TRUE
         IN  c[o] + SumOver(c, ops \ {o})

\* number of awaited calls issued so far by the current upload()
AwaitedCalls(c) == SumOver(c, AwaitedOps)

\* a browser that plays along: upload page reached, nothing to dismiss, one
\* qualifying Post button, success URL at the first poll
HappyBrowser ==
    [fixed |-> TRUE, failAt |-> 0, navUrl |-> UploadUrl,
     page |-> << Button(LABEL_POST, WideBox, FALSE) >>,
     modals |-> [k \in 1..Len(MODAL_BUTTONS) |-> "hidden"],
     tickUrl |-> ContentUrl, tickExit |-> "hidden"]

\* the pages and dialogs a fixed browser shows
BrowserShapes ==
    { HappyBrowser,
      [HappyBrowser EXCEPT !.navUrl = LoginUrlMixed],
      [HappyBrowser EXCEPT !.modals = [k \in 1..Len(MODAL_BUTTONS) |-> "visible"]],
      [HappyBrowser EXCEPT !.page = << Button(LABEL_POST, NoBox, FALSE) >>],
      [HappyBrowser EXCEPT !.tickExit = "visible"],
      [HappyBrowser EXCEPT !.tickUrl = UploadUrl],
      [HappyBrowser EXCEPT !.tickUrl = UploadUrl, !.tickExit = "visible"] }

\* fixed browser behaviours: a shape, and the awaited call that throws (0: none)
Scenarios == { [b EXCEPT !.failAt = n] : b \in BrowserShapes, n \in 0..MaxFailAt }

\* uploadMany's argument: the same valid file requested twice, the two requests
\* differing in visibility only
TwinRequest(v) ==
    [exists |-> TRUE, ext |-> EXT_MP4, size |-> 10 * BYTES_PER_MB, visibility |-> v]

TwinRequests ==
    { << TwinRequest(v), TwinRequest(w) >> :
        <<v, w>> \in { <<VISIBILITY_EVERYONE, VISIBILITY_FRIENDS>>,
                      <<VISIBILITY_EVERYONE, VISIBILITY_PRIVATE>>,
                      <<VISIBILITY_FRIENDS, VISIBILITY_PRIVATE>> } }

\* a TikTokUploader about to run uploadMany on two such requests, in front of a
\* browser whose behaviour is fixed
InitTwin ==
    /\ entry = "batch"
    /\ scenario \in Scenarios
    /\ sources = [param |-> RawSession, env |-> NoString, file |-> NoString]
    /\ session = ConstructSession(sources.param, sources.env)
    /\ cookies = ConstructCookies(session)
    /\ timeout \in BatchTimeouts
    /\ debug \in BOOLEAN
    /\ hasProgress = FALSE
    /\ pc = "batch"
    /\ videos \in TwinRequests
    /\ hasCallback = FALSE
    /\ video = [exists |-> FALSE, ext |-> <<>>, size |-> 0]
    /\ launched = 0
    /\ openBrowsers = 0
    /\ calls = [o \in OpNames |-> 0]
    /\ progress = <<>>
    /\ navUrl = <<>>
    /\ modalClicks = <<>>
    /\ buttons = <<>>
    /\ postBtn = -1
    /\ i = 0
    /\ pollEnd = "none"
    /\ tickUrl = <<>>
    /\ tickExit = "hidden"
    /\ error = NoError
    /\ outcome = NoOutcome
    /\ exitCode = -1
    /\ idx = 0
    /\ started = 0
    /\ results = <<>>
    /\ completed = <<>>
    /\ issuedLog = <<>>
    /\ NoPure

\* a step of upload() in which an awaited browser call threw
BrowserThrew ==
    \/ error' = BrowserError /\ error /= BrowserError
    \/ pc \in {"launch", "newContext"} /\ outcome' = Thrown(BrowserError)

\* the step agrees with the fixed browser: the awaited call number failAt of an
\* upload() throws and no other does, and every page shows what the scenario says
SameBrowser ==
    LET before == AwaitedCalls(calls)
        after == AwaitedCalls(calls')
    IN  pc \notin {"batch", "done"} =>
          /\ BrowserThrew <=> (before < scenario.failAt /\ scenario.failAt <= after)
          /\ BrowserThrew => after = scenario.failAt
          /\ (pc = "navigate" /\ ~BrowserThrew) => navUrl' = scenario.navUrl
          /\ pc = "dismiss" => modalClicks' = dismissModals(scenario.modals)
          /\ (pc = "find" /\ ~BrowserThrew) =>
                buttons' = FilterHasText(scenario.page, LABEL_POST)
          /\ (pc = "poll" /\ after > before /\ ~BrowserThrew) =>
                /\ tickUrl' = scenario.tickUrl
                /\ tickExit' = scenario.tickExit

NextTwin ==
    \/ BatchNext /\ SameBrowser
    \/ BatchCollect /\ SameBrowser
    \/ BatchReturn /\ SameBrowser
    \/ Validate /\ SameBrowser
    \/ Launch /\ SameBrowser
    \/ NewContext /\ SameBrowser
    \/ SetupContext /\ SameBrowser
    \/ NavigateToUpload /\ SameBrowser
    \/ AttachFile /\ SameBrowser
    \/ DismissModals /\ SameBrowser
    \/ SetCaption /\ SameBrowser
    \/ FindPostButton /\ SameBrowser
    \/ NoPostButton /\ SameBrowser
    \/ ClickPost /\ SameBrowser
    \/ PollTick /\ SameBrowser
    \/ PollExhausted /\ SameBrowser
    \/ UploadResult /\ SameBrowser
    \/ Catch /\ SameBrowser
    \/ Finally /\ SameBrowser

SpecTwin == InitTwin /\ [][NextTwin]_vars

TickElapsed ==
    /\ pc = "poll"
    /\ calls'["wait"] = calls["wait"] + 1
    /\ error' = NoError

\* a step that probes the exit-confirmation dialog
ExitProbed == calls'["exitCheck"] /= calls["exitCheck"]

\* the order of the two checks within one tick
SuccessCheckPrecedesExitCheck ==
    /\ (TickElapsed /\ IsSuccessUrl(tickUrl')) =>
          /\ pollEnd' = "success"
          /\ ~ExitProbed
    /\ ExitProbed =>
          /\ TickElapsed
          /\ ~IsSuccessUrl(tickUrl')
          /\ calls'["exitCheck"] = calls["exitCheck"] + 1
    /\ (pollEnd' = "exit" /\ pollEnd /= "exit") =>
          /\ TickElapsed /\ ExitProbed
          /\ tickExit' = "visible"

\* C25: on a poll tick the success URL check precedes the exit-dialog check: a
\* tick whose URL matches ends in success even when the exit dialog is visible,
\* the dialog fails the upload only on a tick whose URL does not match, and it
\* is probed only after the tick's 5-second wait has elapsed
C25_SuccessCheckBeforeExitCheck ==
    /\ [](/\ pollEnd = "success" => IsSuccessUrl(tickUrl)
          /\ pollEnd = "exit" => (~IsSuccessUrl(tickUrl) /\ tickExit = "visible")
          /\ (pollEnd = "success" /\ UploadEnded) => outcome = Returned
          /\ (pollEnd = "exit" /\ UploadEnded) => outcome.type = "thrown")
    /\ [][SuccessCheckPrecedesExitCheck]_vars

\* an upload that succeeded on a tick at which the exit dialog was visible
C25_Witness ==
    /\ UploadEnded
    /\ pollEnd = "success"
    /\ tickExit = "visible"
    /\ IsSuccessUrl(tickUrl)
    /\ calls["exitCheck"] = 0
    /\ outcome = Returned

\* number of times the value 100 was passed to onProgress
Hundreds == Cardinality({ j \in 1..Len(progress) : progress[j] = 100 })

\* C26: the progress callback receives 100 at most once per upload and only in
\* an execution that ends in success; in an execution that ends in failure
\* every reported value is at most 95
C26_HundredOnlyOnSuccess ==
    /\ Hundreds <= 1
    /\ Hundreds = 1 => (pollEnd = "success" /\ error = NoError)
    /\ (UploadEnded /\ Hundreds = 1) => outcome = Returned
    /\ (UploadEnded /\ outcome.type = "thrown") =>
          \A j \in 1..Len(progress) : progress[j] <= PROGRESS_CAP

\* a failed upload whose callback was last told the capped value
C26_Witness ==
    /\ hasProgress
    /\ UploadEnded
    /\ outcome.type = "thrown"
    /\ pollEnd \in {"exit", "timeout"}
    /\ progress /= <<>>
    /\ progress[Len(progress)] = PROGRESS_CAP

====
